---- MODULE Spec2Model ----
(***************************************************************************)
(* A model of fhirstarter's route metadata (utils.py: *_route_args,        *)
(* _responses and the response documentation helpers), of content          *)
(* negotiation (FormatParameters.from_request) and of response composition *)
(* (format_response).                                                      *)
(*                                                                         *)
(* Strings are the program's own strings; a dict is a function whose       *)
(* DOMAIN is the dict's key set; an object is a record with a class field, *)
(* None is the record None below; an optional string (str | None) is a     *)
(* sequence of at most one string; an optional keyword argument is a key   *)
(* that the argument dict has or has not.                                  *)
(***************************************************************************)
EXTENDS Integers, Sequences, FiniteSets, TLC

VARIABLES
    interactions,       \* the descriptors registered so far, in registration order
    routes,             \* the route arguments derived for them, in the same order
    request,            \* the request being handled, or None
    raise_exception,    \* the mode from_request was called in
    outcome,            \* what from_request did: returned FormatParameters, or raised
    call,               \* the keyword arguments format_response was called with, or None
    response,           \* the response sink after format_response, or None
    returned,           \* what format_response did: returned a value, or raised
    dependencies,       \* the provider-level pre-checks of the provider added
    database,           \* the store of the test callbacks: identifier -> Patient
    invoked,            \* the callbacks invoked for the request being handled
    sent,               \* the HTTP response sent for the request, or None
    inflight,           \* the requests handled concurrently, each with its own sink
    cls,                \* the class FormatParameters: its attribute _CONTENT_TYPES
    defaults            \* the default argument values of format_response

vars == <<interactions, routes, request, raise_exception, outcome, call, response, returned,
          dependencies, database, invoked, sent, inflight, cls, defaults>>

sharedVars == <<inflight, cls, defaults>>

clientVars == <<dependencies, database, invoked, sent>>

routeVars == <<interactions, routes>>
requestVars == <<request, raise_exception, outcome, call, response, returned>>

None == [class |-> "NoneType"]

\* ---------------------------------------------------------------- bounds

\* how many descriptors a provider registers
MaxInteractions == 2
\* how many Accept header lines a request carries
MaxAccept == 2
MaxRequests == 2

\* ---------------------------------------------------------------- status.py

HTTP_200_OK == 200
HTTP_201_CREATED == 201
HTTP_400_BAD_REQUEST == 400
HTTP_401_UNAUTHORIZED == 401
HTTP_404_NOT_FOUND == 404
HTTP_422_UNPROCESSABLE_ENTITY == 422

\* ---------------------------------------------------------------- dicts

\* {**base, **over}: the keys of both, over's value where both have the key
Merge(base, over) ==
    [k \in (DOMAIN base) \cup (DOMAIN over) |->
        IF k \in DOMAIN over THEN over[k] ELSE base[k]]

EmptyDict == [k \in {} |-> None]

\* ---------------------------------------------------------------- interactions.py

InteractionClasses ==
    {"CreateInteraction", "ReadInteraction", "SearchTypeInteraction", "UpdateInteraction"}

\* a variant in which ReadInteraction.label was copied from CreateInteraction
label_ReadAsCreate(interaction) ==
    CASE interaction.class = "CreateInteraction" -> "create"
      [] interaction.class = "ReadInteraction" -> "create"
      [] interaction.class = "SearchTypeInteraction" -> "search-type"
      [] interaction.class = "UpdateInteraction" -> "update"

\* a variant in which ReadInteraction.label was copied from SearchTypeInteraction
label_ReadAsSearchType(interaction) ==
    CASE interaction.class = "CreateInteraction" -> "create"
      [] interaction.class = "ReadInteraction" -> "search-type"
      [] interaction.class = "SearchTypeInteraction" -> "search-type"
      [] interaction.class = "UpdateInteraction" -> "update"

label(interaction) ==
    CASE interaction.class = "CreateInteraction" -> "create"
      [] interaction.class = "ReadInteraction" -> "read"
      [] interaction.class = "SearchTypeInteraction" -> "search-type"
      [] interaction.class = "UpdateInteraction" -> "update"

\* the resource classes a provider registers interactions for
ResourceTypes == {"Patient", "Observation"}

Bundle == "Bundle"
OperationOutcome == "OperationOutcome"

get_resource_type(resource_type) == resource_type

\* route options a provider passes on: none, FastAPI options the route
\* arguments do not set, and options whose key the route arguments also set
RouteOptions ==
    { EmptyDict,
      [dependencies |-> <<"validate_token">>],
      [path |-> "/custom"],
      [status_code |-> 202],
      [responses |-> (HTTP_200_OK :> [model |-> OperationOutcome,
                                      description |-> "custom"])] }

CallableOf(class) ==
    CASE class = "CreateInteraction" -> "patient_create"
      [] class = "ReadInteraction" -> "patient_read"
      [] class = "SearchTypeInteraction" -> "patient_search_type"
      [] class = "UpdateInteraction" -> "patient_update"

TypeInteraction(class, resource_type, callable_, route_options) ==
    [class |-> class,
     resource_type |-> resource_type,
     callable_ |-> callable_,
     route_options |-> route_options]

Interactions ==
    { TypeInteraction(c, t, CallableOf(c), o) :
        c \in InteractionClasses, t \in ResourceTypes, o \in RouteOptions }

\* ---------------------------------------------------------------- utils.py: response documentation

_ok(interaction) ==
    HTTP_200_OK :>
        [model |-> IF interaction.class # "SearchTypeInteraction"
                   THEN interaction.resource_type
                   ELSE Bundle,
         description |-> "Successful "
                         \o get_resource_type(interaction.resource_type)
                         \o " " \o label(interaction)]

_created(interaction) ==
    HTTP_201_CREATED :>
        [model |-> interaction.resource_type,
         description |-> "Successful "
                         \o get_resource_type(interaction.resource_type)
                         \o " create"]

_bad_request(interaction) ==
    HTTP_400_BAD_REQUEST :>
        [model |-> OperationOutcome,
         description |-> get_resource_type(interaction.resource_type) \o " "
                         \o label(interaction)
                         \o " request could not be parsed or "
                         \o "failed basic FHIR validation rules."]

_unauthorized(interaction) ==
    HTTP_401_UNAUTHORIZED :>
        [model |-> OperationOutcome,
         description |-> get_resource_type(interaction.resource_type) \o " "
                         \o "Authorization is required for the "
                         \o label(interaction)
                         \o " interaction that was attempted."]

_not_found(interaction) ==
    HTTP_404_NOT_FOUND :>
        [model |-> OperationOutcome,
         description |-> "Unknown "
                         \o get_resource_type(interaction.resource_type)
                         \o " resource"]

_unprocessable_entity(interaction) ==
    HTTP_422_UNPROCESSABLE_ENTITY :>
        [model |-> OperationOutcome,
         description |-> "The proposed "
                         \o get_resource_type(interaction.resource_type)
                         \o " resource violated applicable "
                         \o "FHIR profiles or server business rules."]

\* the call response(interaction) of _responses, for a callable named by its name
CallResponse(name, interaction) ==
    CASE name = "_ok" -> _ok(interaction)
      [] name = "_created" -> _created(interaction)
      [] name = "_bad_request" -> _bad_request(interaction)
      [] name = "_unauthorized" -> _unauthorized(interaction)
      [] name = "_not_found" -> _not_found(interaction)
      [] name = "_unprocessable_entity" -> _unprocessable_entity(interaction)

RECURSIVE MergeResponses(_, _, _)
MergeResponses(merged_responses, interaction, responses) ==
    IF responses = <<>>
    THEN merged_responses
    ELSE MergeResponses(
            Merge(merged_responses, CallResponse(Head(responses), interaction)),
            interaction, Tail(responses))

_responses(interaction, responses) ==
    MergeResponses(EmptyDict, interaction, responses)

\* ---------------------------------------------------------------- utils.py: route arguments

create_route_args(interaction) ==
    LET resource_type_str == get_resource_type(interaction.resource_type) IN
    Merge(
        [path |-> "/" \o resource_type_str,
         response_model |-> interaction.resource_type,
         status_code |-> HTTP_201_CREATED,
         tags |-> <<"Type:" \o get_resource_type(interaction.resource_type)>>,
         summary |-> resource_type_str \o " " \o label(interaction),
         description |-> "The " \o resource_type_str
                         \o " create interaction creates a new "
                         \o resource_type_str
                         \o " resource in a server-assigned location.",
         responses |-> _responses(interaction,
                          <<"_created", "_bad_request", "_unauthorized",
                            "_unprocessable_entity">>),
         response_model_exclude_none |-> TRUE],
        interaction.route_options)

read_route_args(interaction) ==
    LET resource_type_str == get_resource_type(interaction.resource_type) IN
    Merge(
        [path |-> "/" \o resource_type_str \o "/{id}",
         response_model |-> interaction.resource_type,
         status_code |-> HTTP_200_OK,
         tags |-> <<"Type:" \o get_resource_type(interaction.resource_type)>>,
         summary |-> resource_type_str \o " " \o label(interaction),
         description |-> "The " \o resource_type_str
                         \o " read interaction accesses "
                         \o "the current contents of a "
                         \o resource_type_str \o " resource.",
         responses |-> _responses(interaction,
                          <<"_ok", "_unauthorized", "_not_found">>),
         response_model_exclude_none |-> TRUE],
        interaction.route_options)

search_type_route_args(interaction, post) ==
    LET resource_type_str == get_resource_type(interaction.resource_type) IN
    Merge(
        [path |-> "/" \o resource_type_str \o (IF post THEN "/_search" ELSE ""),
         response_model |-> Bundle,
         status_code |-> HTTP_200_OK,
         tags |-> <<"Type:" \o get_resource_type(interaction.resource_type)>>,
         summary |-> resource_type_str \o " " \o label(interaction),
         description |-> "The " \o resource_type_str
                         \o " search-type interaction searches a set of "
                         \o "resources based on some filter criteria.",
         responses |-> _responses(interaction,
                          <<"_ok", "_bad_request", "_unauthorized">>),
         response_model_exclude_none |-> TRUE],
        interaction.route_options)

update_route_args(interaction) ==
    LET resource_type_str == get_resource_type(interaction.resource_type) IN
    Merge(
        [path |-> "/" \o resource_type_str \o "/{id}",
         response_model |-> interaction.resource_type,
         status_code |-> HTTP_200_OK,
         tags |-> <<"Type:" \o get_resource_type(interaction.resource_type)>>,
         summary |-> resource_type_str \o " " \o label(interaction),
         description |-> "The " \o resource_type_str
                         \o " update interaction creates a new current version "
                         \o "for an existing " \o resource_type_str \o " resource.",
         responses |-> _responses(interaction,
                          <<"_ok", "_bad_request", "_unauthorized",
                            "_unprocessable_entity">>),
         response_model_exclude_none |-> TRUE],
        interaction.route_options)

\* the routes added for one descriptor: one per kind, two (GET, then POST) for
\* search-type
RoutesOf(interaction) ==
    CASE label(interaction) = "create" ->
            <<[verb |-> "POST", args |-> create_route_args(interaction)]>>
      [] label(interaction) = "read" ->
            <<[verb |-> "GET", args |-> read_route_args(interaction)]>>
      [] label(interaction) = "search-type" ->
            <<[verb |-> "GET", args |-> search_type_route_args(interaction, FALSE)],
              [verb |-> "POST", args |-> search_type_route_args(interaction, TRUE)]>>
      [] label(interaction) = "update" ->
            <<[verb |-> "PUT", args |-> update_route_args(interaction)]>>

\* ---------------------------------------------------------------- requests

Methods == {"GET", "POST", "PUT"}

\* values of one Accept header line: aliases of the table, a content type the
\* table does not have, and a comma-separated list in one line
AcceptValues ==
    {"application/fhir+xml", "application/json", "text/html",
     "text/html, application/fhir+xml"}

RECURSIVE SeqsUpTo(_, _)
SeqsUpTo(S, n) ==
    IF n = 0
    THEN {<<>>}
    ELSE LET shorter == SeqsUpTo(S, n - 1) IN
         shorter \cup {Append(s, x) : s \in shorter, x \in S}

AcceptHeaders == SeqsUpTo(AcceptValues, MaxAccept)

\* raw values of the _format query parameter
FormatValues == {"json", "xml", "text/xml", "bogus"}

\* raw values of the _pretty query parameter
PrettyValues == {"true", "True", "TRUE", "1", "yes", "", "false"}

QueryParams ==
    {EmptyDict}
    \cup {[_format |-> f] : f \in FormatValues}
    \cup {[_pretty |-> p] : p \in PrettyValues}
    \cup {[_format |-> f, _pretty |-> p] : f \in FormatValues, p \in PrettyValues}

Requests ==
    { [class |-> "Request", method |-> m, headers |-> [Accept |-> a], query_params |-> q] :
        m \in Methods, a \in AcceptHeaders, q \in QueryParams }

\* d.get(key, default)
Get(d, key, default) == IF key \in DOMAIN d THEN d[key] ELSE default

\* ---------------------------------------------------------------- utils.py: FormatParameters

\* a variant of the table that maps text/xml to itself
_CONTENT_TYPES_TextXmlKept ==
    [t \in {"json", "application/json", "application/fhir+json",
            "xml", "text/xml", "application/xml", "application/fhir+xml"} |->
        IF t \in {"json", "application/json", "application/fhir+json"}
        THEN "application/fhir+json"
        ELSE IF t = "text/xml" THEN "text/xml" ELSE "application/fhir+xml"]

_CONTENT_TYPES ==
    [t \in {"json", "application/json", "application/fhir+json",
            "xml", "text/xml", "application/xml", "application/fhir+xml"} |->
        IF t \in {"json", "application/json", "application/fhir+json"}
        THEN "application/fhir+json"
        ELSE "application/fhir+xml"]

FormatParameters(format, pretty) ==
    [class |-> "FormatParameters", format |-> format, pretty |-> pretty]

\* FormatParameters(): the dataclass defaults
DefaultFormatParameters == FormatParameters("application/fhir+json", FALSE)

\* the loop over request.headers.getlist("Accept"): the normalized content type
\* of the first header value that is a key of the table
RECURSIVE FirstContentType(_)
FirstContentType(accept) ==
    IF accept = <<>>
    THEN <<>>
    ELSE IF Head(accept) \in DOMAIN _CONTENT_TYPES
         THEN <<_CONTENT_TYPES[Head(accept)]>>
         ELSE FirstContentType(Tail(accept))

\* a variant that reads the Accept header whatever the method is
format_from_accept_header_AnyMethod(req) ==
    FirstContentType(req.headers.Accept)

format_from_accept_header(req) ==
    IF req.method = "POST"
    THEN FirstContentType(req.headers.Accept)
    ELSE <<>>

FHIRGeneralError(status_code, severity, code, details_text) ==
    [class |-> "FHIRGeneralError",
     status_code |-> status_code,
     severity |-> severity,
     code |-> code,
     details_text |-> details_text]

Returned(value) == [raised |-> FALSE, value |-> value]
Raised(exception) == [raised |-> TRUE, exception |-> exception]

\* a variant that lets the _format query parameter go before the Accept header
from_request_QueryFirst(req, raise_exc) ==
    LET format_ == format_from_accept_header(req)
        token == Get(req.query_params, "_format", "json")
        pretty == Get(req.query_params, "_pretty", "false") = "true"
    IN  IF "_format" \in DOMAIN req.query_params /\ token \in DOMAIN _CONTENT_TYPES
        THEN Returned(FormatParameters(_CONTENT_TYPES[token], pretty))
        ELSE IF format_ # <<>>
             THEN Returned(FormatParameters(format_[1], pretty))
             ELSE IF token \in DOMAIN _CONTENT_TYPES
                  THEN Returned(FormatParameters(_CONTENT_TYPES[token], pretty))
                  ELSE IF raise_exc
                       THEN Raised(FHIRGeneralError(
                               HTTP_400_BAD_REQUEST, "error", "structure",
                               "Invalid response format specified for '_format' parameter"))
                       ELSE Returned(FormatParameters("application/fhir+json", pretty))

\* a variant that never raises: an unknown token always falls back to JSON
from_request_NeverRaises(req, raise_exc) ==
    LET format_ == format_from_accept_header(req)
        token == Get(req.query_params, "_format", "json")
        pretty == Get(req.query_params, "_pretty", "false") = "true"
    IN  IF format_ # <<>>
        THEN Returned(FormatParameters(format_[1], pretty))
        ELSE IF token \in DOMAIN _CONTENT_TYPES
             THEN Returned(FormatParameters(_CONTENT_TYPES[token], pretty))
             ELSE Returned(FormatParameters("application/fhir+json", pretty))

\* a variant that compares the _pretty value without regard to case
from_request_PrettyAnyCase(req, raise_exc) ==
    LET format_ == format_from_accept_header(req)
        token == Get(req.query_params, "_format", "json")
        pretty == Get(req.query_params, "_pretty", "false") \in {"true", "True", "TRUE"}
    IN  IF format_ # <<>>
        THEN Returned(FormatParameters(format_[1], pretty))
        ELSE IF token \in DOMAIN _CONTENT_TYPES
             THEN Returned(FormatParameters(_CONTENT_TYPES[token], pretty))
             ELSE IF raise_exc
                  THEN Raised(FHIRGeneralError(
                          HTTP_400_BAD_REQUEST, "error", "structure",
                          "Invalid response format specified for '_format' parameter"))
                  ELSE Returned(FormatParameters("application/fhir+json", pretty))

from_request(req, raise_exc) ==
    LET format_ == format_from_accept_header(req)
        token == Get(req.query_params, "_format", "json")
        pretty == Get(req.query_params, "_pretty", "false") = "true"
    IN  IF format_ # <<>>
        THEN Returned(FormatParameters(format_[1], pretty))
        ELSE IF token \in DOMAIN _CONTENT_TYPES
             THEN Returned(FormatParameters(_CONTENT_TYPES[token], pretty))
             ELSE IF raise_exc
                  THEN Raised(FHIRGeneralError(
                          HTTP_400_BAD_REQUEST, "error", "structure",
                          "Invalid response format specified for '_format' parameter"))
                  ELSE Returned(FormatParameters("application/fhir+json", pretty))

\* ---------------------------------------------------------------- utils.py: format_response

make_operation_outcome(severity, code, details_text) ==
    [class |-> "OperationOutcome",
     issue |-> <<[severity |-> severity,
                  code |-> code,
                  details |-> [text |-> details_text]]>>]

\* the resources handed to format_response: a domain resource and an error payload
Resources ==
    { [class |-> "Patient", id |-> "1"],
      make_operation_outcome("error", "not-found", "Unknown Patient resource '1'") }

\* the response sinks handed to format_response: without headers, with a
\* header set earlier in the request, and with a content type already set
Sinks ==
    { [class |-> "Response", headers |-> EmptyDict],
      [class |-> "Response", headers |-> [Location |-> "/Patient/1"]],
      [class |-> "Response", headers |-> ("Content-Type" :> "application/json")] }

\* explicit status codes handed to format_response
StatusCodes == {HTTP_201_CREATED, HTTP_404_NOT_FOUND}

\* the keyword arguments of one call of format_response; a key left out takes
\* the default None
ComposeArgs ==
    { Merge([resource |-> r, response |-> s], c) :
        r \in Resources \cup {None},
        s \in Sinks \cup {None},
        c \in {EmptyDict} \cup {[status_code |-> n] : n \in StatusCodes} }

\* the serializations of the resource library, by what was asked of it
json(resource, indent) == [encoding |-> "json", indent |-> indent, of |-> resource]
dict(resource) == [encoding |-> "json", indent |-> 0, of |-> resource]
xml(resource, pretty_print) ==
    [encoding |-> "xml", pretty_print |-> pretty_print, of |-> resource]

Response(content, status_code, media_type) ==
    [class |-> "Response", content |-> content, status_code |-> status_code,
     media_type |-> media_type]

JSONResponse(content, status_code, media_type) ==
    [class |-> "JSONResponse", content |-> content, status_code |-> status_code,
     media_type |-> media_type]

\* a variant that leaves the sink's headers alone
SetContentTypeSkipped(sink, value) == sink

\* a variant that replaces the sink's headers by the content type alone
SetContentTypeOnly(sink, value) ==
    [sink EXCEPT !.headers = "Content-Type" :> value]

\* response.headers["Content-Type"] = value
SetContentType(sink, value) ==
    [sink EXCEPT !.headers = Merge(@, "Content-Type" :> value)]

\* a variant that never sees an explicit status code
StatusCodeIgnored(args) == FALSE

\* the tests "status_code or ..." and "if status_code": the argument was given
\* and is not 0
StatusCodeGiven(args) == "status_code" \in DOMAIN args /\ args.status_code # 0

\* a variant that tests the explicit status code before the format: whatever
\* comes with a status code is built as JSON
format_response_StatusBeforeFormat(args, format_parameters) ==
    LET resource == args.resource
        sink == args.response
    IN  IF resource = None
        THEN IF sink = None
             THEN [response |-> sink, result |-> Raised("AssertionError")]
             ELSE [response |-> SetContentType(sink, format_parameters.format),
                   result |-> Returned(resource)]
        ELSE IF format_parameters.format = "application/fhir+json" \/ StatusCodeGiven(args)
             THEN IF format_parameters.pretty
                  THEN [response |-> sink,
                        result |-> Returned(Response(
                            json(resource, 2),
                            IF StatusCodeGiven(args) THEN args.status_code ELSE HTTP_200_OK,
                            format_parameters.format))]
                  ELSE IF StatusCodeGiven(args)
                       THEN [response |-> sink,
                             result |-> Returned(JSONResponse(
                                 dict(resource), args.status_code,
                                 format_parameters.format))]
                       ELSE IF sink = None
                            THEN [response |-> sink,
                                  result |-> Raised("AssertionError")]
                            ELSE [response |->
                                      SetContentType(sink, format_parameters.format),
                                  result |-> Returned(resource)]
             ELSE [response |-> sink,
                   result |-> Returned(Response(
                       xml(resource, format_parameters.pretty),
                       IF StatusCodeGiven(args) THEN args.status_code ELSE HTTP_200_OK,
                       format_parameters.format))]

\* format_response: the sink after the call and what the call returned or raised
format_response(args, format_parameters) ==
    LET resource == args.resource
        sink == args.response
    IN  IF resource = None
        THEN IF sink = None
             THEN [response |-> sink, result |-> Raised("AssertionError")]
             ELSE [response |-> SetContentType(sink, format_parameters.format),
                   result |-> Returned(resource)]
        ELSE IF format_parameters.format = "application/fhir+json"
             THEN IF format_parameters.pretty
                  THEN [response |-> sink,
                        result |-> Returned(Response(
                            json(resource, 2),
                            IF StatusCodeGiven(args) THEN args.status_code ELSE HTTP_200_OK,
                            format_parameters.format))]
                  ELSE IF StatusCodeGiven(args)
                       THEN [response |-> sink,
                             result |-> Returned(JSONResponse(
                                 dict(resource), args.status_code,
                                 format_parameters.format))]
                       ELSE IF sink = None
                            THEN [response |-> sink,
                                  result |-> Raised("AssertionError")]
                            ELSE [response |->
                                      SetContentType(sink, format_parameters.format),
                                  result |-> Returned(resource)]
             ELSE [response |-> sink,
                   result |-> Returned(Response(
                       xml(resource, format_parameters.pretty),
                       IF StatusCodeGiven(args) THEN args.status_code ELSE HTTP_200_OK,
                       format_parameters.format))]

\* ---------------------------------------------------------------- capability statement

\* the kinds in the order the capability statement lists them
CanonicalKinds == <<"create", "read", "search-type", "update">>

\* the search parameters FHIR defines, by resource type and name
BuiltinSearchParameters ==
    [Patient |->
        [family |->
            [name |-> "family",
             definition |-> "http://hl7.org/fhir/SearchParameter/individual-family",
             type |-> "string",
             documentation |-> "A portion of the family name of the patient"],
         general_practitioner |->
            [name |-> "general-practitioner",
             definition |-> "http://hl7.org/fhir/SearchParameter/Patient-general-practitioner",
             type |-> "reference",
             documentation |-> "Patient's nominated general practitioner, not the organization that manages the record"],
         _last_updated |->
            [name |-> "_lastUpdated",
             definition |-> "http://hl7.org/fhir/SearchParameter/Resource-lastUpdated",
             type |-> "date",
             documentation |-> "When the resource version last changed"]],
     Observation |->
        [_last_updated |->
            [name |-> "_lastUpdated",
             definition |-> "http://hl7.org/fhir/SearchParameter/Resource-lastUpdated",
             type |-> "date",
             documentation |-> "When the resource version last changed"]]]

\* the search parameters of the configuration file of the test application
ConfigSearchParameters ==
    [Patient |->
        [nickname |->
            [name |-> "nickname",
             definition |-> "https://hostname/nickname",
             type |-> "string",
             documentation |-> "Nickname",
             include_in_capability_statement |-> TRUE]],
     Observation |-> EmptyDict]

\* the filter parameters of the search-type callback, in signature order
SearchCallableParameters ==
    <<"family", "general_practitioner", "nickname", "_last_updated">>

\* the search parameters listed for a resource type: the callback's
\* parameters that are defined for the type, built in or configured to be
\* listed, in signature order
search_parameters(resource_type) ==
    LET builtin == BuiltinSearchParameters[resource_type]
        config == ConfigSearchParameters[resource_type]
        listed(p) ==
            \/ p \in DOMAIN builtin
            \/ p \in DOMAIN config /\ config[p].include_in_capability_statement
        entry(p) ==
            IF p \in DOMAIN builtin
            THEN builtin[p]
            ELSE [name |-> config[p].name,
                  definition |-> config[p].definition,
                  type |-> config[p].type,
                  documentation |-> config[p].documentation]
        names == SelectSeq(SearchCallableParameters, listed)
    IN  [n \in DOMAIN names |-> entry(names[n])]

\* the entry of one resource type: its kinds in canonical order, and its
\* search parameters when search-type is one of them
capability_resource(resource_type, registered) ==
    LET kinds == {label(registered[n]) :
                    n \in {m \in DOMAIN registered :
                                registered[m].resource_type = resource_type}}
        supported(kind) == kind \in kinds
        listed == SelectSeq(CanonicalKinds, supported)
        base == [type |-> resource_type,
                 interaction |-> [n \in DOMAIN listed |-> [code |-> listed[n]]]]
    IN  IF "search-type" \in kinds
        THEN Merge(base, [searchParam |-> search_parameters(resource_type)])
        ELSE base

\* the capability statement; rest[1].resource is keyed by resource type here,
\* the order of the entries of different types is left open
capability_statement(registered) ==
    [class |-> "CapabilityStatement",
     status |-> "active",
     kind |-> "instance",
     publisher |-> "Publisher",
     fhirVersion |-> "4.3.0",
     format |-> <<"json">>,
     rest |-> <<[mode |-> "server",
                 resource |->
                    [t \in {registered[n].resource_type : n \in DOMAIN registered} |->
                        capability_resource(t, registered)]]>>]

\* ---------------------------------------------------------------- startup

\* a provider's interaction is added to the application: its routes are derived
AddInteraction(interaction) ==
    /\ sent = None
    /\ Len(interactions) < MaxInteractions
    /\ interactions' = Append(interactions, interaction)
    /\ routes' = Append(routes, RoutesOf(interaction))
    /\ UNCHANGED requestVars
    /\ UNCHANGED clientVars
    /\ UNCHANGED sharedVars

\* the application as constructed: no provider added, no request received
\* a request that has not arrived
Idle ==
    [request |-> None, raise_exception |-> TRUE, outcome |-> None,
     call |-> None, response |-> None, returned |-> None]

Init ==
    /\ interactions = <<>>
    /\ routes = <<>>
    /\ request = None
    /\ raise_exception = TRUE
    /\ outcome = None
    /\ call = None
    /\ response = None
    /\ returned = None
    /\ dependencies = <<>>
    /\ database = EmptyDict
    /\ invoked = <<>>
    /\ sent = None
    /\ inflight = [i \in 1..MaxRequests |-> Idle]
    /\ cls = [_CONTENT_TYPES |-> _CONTENT_TYPES]
    /\ defaults = [format_parameters |-> DefaultFormatParameters]

\* GET /metadata: the capability statement of what is registered is sent
GetMetadata ==
    /\ sent = None
    /\ sent' = [status_code |-> HTTP_200_OK,
                body |-> capability_statement(interactions)]
    /\ UNCHANGED <<dependencies, database, invoked>>
    /\ UNCHANGED routeVars
    /\ UNCHANGED requestVars
    /\ UNCHANGED sharedVars

StartupNext ==
    \/ \E interaction \in Interactions : AddInteraction(interaction)
    \/ GetMetadata

StartupSpec == Init /\ [][StartupNext]_vars

\* ---------------------------------------------------------------- serving

\* the provider of the test client: the four Patient interactions, no route options
ClientInteractions ==
    << TypeInteraction("CreateInteraction", "Patient", "patient_create", EmptyDict),
       TypeInteraction("ReadInteraction", "Patient", "patient_read", EmptyDict),
       TypeInteraction("SearchTypeInteraction", "Patient", "patient_search_type", EmptyDict),
       TypeInteraction("UpdateInteraction", "Patient", "patient_update", EmptyDict) >>

\* the provider of the test client is added: the routes of its interactions
\* are derived, in registration order
AddProviders ==
    /\ interactions = <<>>
    /\ interactions' = ClientInteractions
    /\ routes' = [n \in DOMAIN ClientInteractions |-> RoutesOf(ClientInteractions[n])]
    /\ UNCHANGED requestVars
    /\ UNCHANGED clientVars
    /\ UNCHANGED sharedVars

\* a request arrives at the test client and its format is negotiated, strictly
\* or leniently
FromRequest ==
    /\ interactions # <<>>
    /\ request = None
    /\ \E req \in Requests, raise_exc \in BOOLEAN :
        /\ request' = req
        /\ raise_exception' = raise_exc
        /\ outcome' = from_request(req, raise_exc)
    /\ call' = None
    /\ response' = None
    /\ returned' = None
    /\ UNCHANGED routeVars
    /\ UNCHANGED clientVars
    /\ UNCHANGED sharedVars

\* the response of the request is composed with the negotiated format
FormatResponse ==
    /\ outcome # None
    /\ ~outcome.raised
    /\ call = None
    /\ \E args \in ComposeArgs :
        LET done == format_response(args, outcome.value) IN
            /\ call' = args
            /\ response' = done.response
            /\ returned' = done.result
    /\ UNCHANGED <<request, raise_exception, outcome>>
    /\ UNCHANGED routeVars
    /\ UNCHANGED clientVars
    /\ UNCHANGED sharedVars

Next ==
    \/ AddProviders
    \/ FromRequest
    \/ FormatResponse

Spec == Init /\ [][Next]_vars

\* ---------------------------------------------------------------- properties

\* the tokens of the alias table, as the specification lists them
JsonAliases == {"json", "application/json", "application/fhir+json"}
XmlAliases == {"xml", "text/xml", "application/xml", "application/fhir+xml"}

Negotiated == outcome # None /\ ~outcome.raised
Composed == call # None /\ ~returned.raised
Standalone ==
    Composed /\ returned.value.class \in {"Response", "JSONResponse"}

\* the routes of the n-th registered descriptor are those of the table of kinds
TableRoutes(n) ==
    LET i == interactions[n]
        T == i.resource_type
        r == routes[n]
    IN  CASE i.class = "CreateInteraction" ->
                /\ Len(r) = 1
                /\ r[1].args.path = "/" \o T
                /\ r[1].args.status_code = 201
          [] i.class = "ReadInteraction" ->
                /\ Len(r) = 1
                /\ r[1].args.path = "/" \o T \o "/{id}"
                /\ r[1].args.status_code = 200
          [] i.class = "SearchTypeInteraction" ->
                /\ Len(r) = 2
                /\ r[1].verb = "GET"
                /\ r[1].args.path = "/" \o T
                /\ r[1].args.status_code = 200
                /\ r[2].verb = "POST"
                /\ r[2].args.path = "/" \o T \o "/_search"
                /\ r[2].args.status_code = 200
          [] i.class = "UpdateInteraction" ->
                /\ Len(r) = 1
                /\ r[1].args.path = "/" \o T \o "/{id}"
                /\ r[1].args.status_code = 200

\* C1: every registered descriptor's routes have the path and the success
\* status of the table: Create /T 201, Read /T/{id} 200, SearchType /T (GET)
\* and /T/_search (POST) 200, Update /T/{id} 200.
C1_RouteTable ==
    \A n \in DOMAIN interactions : TableRoutes(n)

\* the status codes the table documents for a kind
TableStatuses(class) ==
    CASE class = "CreateInteraction" -> {201, 400, 401, 422}
      [] class = "ReadInteraction" -> {200, 401, 404}
      [] class = "SearchTypeInteraction" -> {200, 400, 401}
      [] class = "UpdateInteraction" -> {200, 400, 401, 422, 404}

\* C2: the status codes of every route's documented responses are exactly the
\* success status and the declared errors of the table for the route's kind.
C2_DocumentedStatuses ==
    \A n \in DOMAIN interactions :
        \A k \in DOMAIN routes[n] :
            DOMAIN routes[n][k].args.responses = TableStatuses(interactions[n].class)

\* C3: two registered descriptors of the same resource type and kind have the
\* same path, success status and documented responses, whatever their route
\* options are.
C3_TypeAndKindDecide ==
    \A m, n \in DOMAIN interactions :
        (/\ interactions[m].resource_type = interactions[n].resource_type
         /\ interactions[m].class = interactions[n].class)
        => /\ Len(routes[m]) = Len(routes[n])
           /\ \A k \in DOMAIN routes[m] :
                /\ routes[m][k].args.path = routes[n][k].args.path
                /\ routes[m][k].args.status_code = routes[n][k].args.status_code
                /\ routes[m][k].args.responses = routes[n][k].args.responses

HasFormat == request # None /\ "_format" \in DOMAIN request.query_params
HasPretty == request # None /\ "_pretty" \in DOMAIN request.query_params

\* C4: a POST request whose Accept header is application/fhir+xml resolves to
\* application/fhir+xml whatever its _format is, and raises nothing, in
\* strict mode too.
C4_PostAcceptXml ==
    (/\ request # None
     /\ request.method = "POST"
     /\ request.headers.Accept = <<"application/fhir+xml">>)
    => /\ ~outcome.raised
       /\ outcome.value.format = "application/fhir+xml"

C4_Witness ==
    /\ request # None
    /\ request.method = "POST"
    /\ request.headers.Accept = <<"application/fhir+xml">>
    /\ HasFormat
    /\ request.query_params._format = "bogus"
    /\ raise_exception
    /\ Negotiated
    /\ outcome.value.format = "application/fhir+xml"

\* the token the query string gives for the format: _format, or json without it
QueryToken == IF HasFormat THEN request.query_params._format ELSE "json"

\* what the query string alone resolves to
ResolvedFromQuery ==
    /\ QueryToken \in JsonAliases
        => Negotiated /\ outcome.value.format = "application/fhir+json"
    /\ QueryToken \in XmlAliases
        => Negotiated /\ outcome.value.format = "application/fhir+xml"
    /\ QueryToken \notin JsonAliases \cup XmlAliases
        => IF raise_exception
           THEN outcome.raised
           ELSE Negotiated /\ outcome.value.format = "application/fhir+json"

FallsThrough ==
    /\ request # None
    /\ \/ request.method # "POST"
       \/ \A n \in DOMAIN request.headers.Accept :
            request.headers.Accept[n] \notin JsonAliases \cup XmlAliases

\* C6: when resolution falls through to a _format token that the alias table
\* does not have, strict mode raises a 400 error of severity error and code
\* structure and returns nothing, lenient mode resolves to
\* application/fhir+json; lenient resolution returns for every request.
C6_UnknownToken ==
    /\ (FallsThrough /\ QueryToken \notin JsonAliases \cup XmlAliases)
        => IF raise_exception
           THEN /\ outcome.raised
                /\ outcome.exception.status_code = 400
                /\ outcome.exception.severity = "error"
                /\ outcome.exception.code = "structure"
           ELSE /\ ~outcome.raised
                /\ outcome.value.format = "application/fhir+json"
    /\ (request # None /\ ~raise_exception) => ~outcome.raised

C6_Witness ==
    /\ request # None
    /\ request.method = "POST"
    /\ request.headers.Accept = <<"text/html">>
    /\ HasFormat
    /\ request.query_params._format = "bogus"
    /\ raise_exception
    /\ outcome.raised
    /\ outcome.exception.code = "structure"

\* C7: every FormatParameters from_request returns has format
\* application/fhir+json or application/fhir+xml, and so has the content type
\* of every composed response: the media type of a standalone response, or
\* the Content-Type header set on the sink.
C7_CanonicalFormat ==
    /\ Negotiated
        => outcome.value.format \in {"application/fhir+json", "application/fhir+xml"}
    /\ Composed
        => IF Standalone
           THEN returned.value.media_type
                    \in {"application/fhir+json", "application/fhir+xml"}
           ELSE /\ "Content-Type" \in DOMAIN response.headers
                /\ response.headers["Content-Type"]
                    \in {"application/fhir+json", "application/fhir+xml"}

C7_Witness ==
    /\ HasFormat
    /\ request.query_params._format = "text/xml"
    /\ Standalone
    /\ returned.value.media_type = "application/fhir+xml"

\* C8: the resolved pretty flag is true exactly when the request has a _pretty
\* query parameter whose value is the string true, whatever the method, the
\* Accept header and the resolved format are.
C8_PrettyLiteralTrue ==
    Negotiated
        => (outcome.value.pretty
                <=> (HasPretty /\ request.query_params._pretty = "true"))

C8_Witness ==
    /\ Negotiated
    /\ HasPretty
    /\ request.query_params._pretty = "true"
    /\ request.method = "POST"
    /\ outcome.value.format = "application/fhir+xml"
    /\ outcome.value.pretty

\* C9: for a present resource a standalone response is built exactly when the
\* format is XML, or pretty is set, or an explicit status code is given; its
\* status is the explicit status, or 200 without one, and its media type is
\* the negotiated format.
C9_StandaloneCases ==
    (call # None /\ call.resource # None)
    => LET explicit == "status_code" \in DOMAIN call IN
       /\ Standalone
            <=> \/ outcome.value.format = "application/fhir+xml"
                \/ outcome.value.pretty
                \/ explicit
       /\ Standalone
            => /\ returned.value.status_code
                    = (IF explicit THEN call.status_code ELSE 200)
               /\ returned.value.media_type = outcome.value.format

C9_Witness ==
    /\ call # None
    /\ call.resource # None
    /\ "status_code" \in DOMAIN call
    /\ call.status_code = 404
    /\ outcome.value.format = "application/fhir+json"
    /\ ~outcome.value.pretty
    /\ Standalone
    /\ returned.value.status_code = 404

\* C10: for a present resource, format application/fhir+json, pretty false and
\* no explicit status code, no response object is built: with a sink, the
\* sink's Content-Type header is set to application/fhir+json and the resource
\* itself is returned; without a sink the call is rejected.
C10_DefaultJson ==
    (/\ call # None
     /\ call.resource # None
     /\ outcome.value.format = "application/fhir+json"
     /\ ~outcome.value.pretty
     /\ "status_code" \notin DOMAIN call)
    => IF call.response = None
       THEN returned.raised /\ response = None
       ELSE /\ ~returned.raised
            /\ returned.value = call.resource
            /\ "Content-Type" \in DOMAIN response.headers
            /\ response.headers["Content-Type"] = "application/fhir+json"

C10_Witness ==
    /\ call # None
    /\ call.resource # None
    /\ call.response # None
    /\ "Content-Type" \notin DOMAIN call.response.headers
    /\ "status_code" \notin DOMAIN call
    /\ Composed
    /\ returned.value = call.resource
    /\ response.headers["Content-Type"] = "application/fhir+json"

\* the shape a documented response of a descriptor should carry, by status
\* code: the resource type for 201 and for the 200 of create, read and update,
\* Bundle for the 200 of search-type, OperationOutcome for the errors
TableModel(interaction, status_code) ==
    IF status_code \in {400, 401, 404, 422}
    THEN "OperationOutcome"
    ELSE IF status_code = 200 /\ interaction.class = "SearchTypeInteraction"
         THEN "Bundle"
         ELSE interaction.resource_type

\* C16: in the documented responses of every route the success entry carries
\* the descriptor's resource type (Bundle for search-type) and every error
\* entry carries OperationOutcome; no error entry carries the resource type
\* and no success entry OperationOutcome.
C16_ShapeTags ==
    \A n \in DOMAIN interactions :
        \A k \in DOMAIN routes[n] :
            LET responses == routes[n][k].args.responses IN
            \A status_code \in DOMAIN responses :
                responses[status_code].model
                    = TableModel(interactions[n], status_code)

\* the content types one Accept header value lists: the items of a
\* comma-separated list, in order
ListedTokens(value) ==
    IF value = "text/html, application/fhir+xml"
    THEN <<"text/html", "application/fhir+xml">>
    ELSE <<value>>

RECURSIVE AllListedTokens(_)
AllListedTokens(accept) ==
    IF accept = <<>>
    THEN <<>>
    ELSE ListedTokens(Head(accept)) \o AllListedTokens(Tail(accept))

\* C17: for a POST request the resolved format is that of the first listed
\* token of the Accept header that is in the alias table, whether the tokens
\* come as separate header lines or as a comma-separated list in one value;
\* the _format query parameter counts only when no listed token matches.
C17_FirstListedToken ==
    (request # None /\ request.method = "POST")
    => LET listed == AllListedTokens(request.headers.Accept)
           matching == {n \in DOMAIN listed : listed[n] \in JsonAliases \cup XmlAliases}
       IN  IF matching = {}
           THEN ResolvedFromQuery
           ELSE LET first == CHOOSE n \in matching : \A m \in matching : n <= m IN
                /\ Negotiated
                /\ outcome.value.format
                    = (IF listed[first] \in JsonAliases
                       THEN "application/fhir+json"
                       ELSE "application/fhir+xml")

\* C18: when the resource is absent, whatever the format, the pretty flag and
\* the explicit status code are, no response object is built: with a sink its
\* Content-Type header is set to the negotiated format, its other headers are
\* kept, and the absent value is returned; without a sink the call is
\* rejected and returns nothing.
C18_AbsentResource ==
    (call # None /\ call.resource = None)
    => IF call.response = None
       THEN returned.raised /\ response = None
       ELSE /\ ~returned.raised
            /\ returned.value = None
            /\ response.class = call.response.class
            /\ DOMAIN response.headers
                    = DOMAIN call.response.headers \cup {"Content-Type"}
            /\ response.headers["Content-Type"] = outcome.value.format
            /\ \A h \in DOMAIN call.response.headers \ {"Content-Type"} :
                    response.headers[h] = call.response.headers[h]

C18_Witness ==
    /\ call # None
    /\ call.resource = None
    /\ call.response # None
    /\ "Location" \in DOMAIN call.response.headers
    /\ "status_code" \in DOMAIN call
    /\ outcome.value.format = "application/fhir+xml"
    /\ outcome.value.pretty
    /\ Composed
    /\ returned.value = None
    /\ response.headers = [Location |-> "/Patient/1"] @@ ("Content-Type" :> "application/fhir+xml")

\* the kind of a descriptor class, as the specification names the kinds
KindOf(class) ==
    CASE class = "CreateInteraction" -> "create"
      [] class = "ReadInteraction" -> "read"
      [] class = "SearchTypeInteraction" -> "search-type"
      [] class = "UpdateInteraction" -> "update"

\* the place of a kind in the order create, read, search-type, update; 0 for
\* anything else
KindRank(kind) ==
    CASE kind = "create" -> 1
      [] kind = "read" -> 2
      [] kind = "search-type" -> 3
      [] kind = "update" -> 4
      [] OTHER -> 0

RegisteredKinds(resource_type) ==
    {KindOf(interactions[n].class) :
        n \in {m \in DOMAIN interactions :
                    interactions[m].resource_type = resource_type}}

MetadataSent ==
    sent # None /\ sent.body.class = "CapabilityStatement"

\* C14: whatever the order of registration was, the capability statement has
\* an entry for exactly the resource types with a registered interaction, and
\* the entry lists exactly the registered kinds, each once, in the order
\* create, read, search-type, update.
C14_CanonicalKindOrder ==
    MetadataSent
    => LET resource == sent.body.rest[1].resource IN
       /\ DOMAIN resource = {interactions[n].resource_type : n \in DOMAIN interactions}
       /\ \A t \in DOMAIN resource :
            LET codes == resource[t].interaction IN
            /\ {codes[n].code : n \in DOMAIN codes} = RegisteredKinds(t)
            /\ \A n \in DOMAIN codes : KindRank(codes[n].code) > 0
            /\ \A m, n \in DOMAIN codes :
                    m < n => KindRank(codes[m].code) < KindRank(codes[n].code)

C14_Witness ==
    /\ MetadataSent
    /\ Len(interactions) = 2
    /\ interactions[1].class = "UpdateInteraction"
    /\ interactions[2].class = "CreateInteraction"
    /\ interactions[1].resource_type = "Patient"
    /\ interactions[2].resource_type = "Patient"
    /\ sent.body.rest[1].resource["Patient"].interaction
            = <<[code |-> "create"], [code |-> "update"]>>

\* C15: an entry lists search parameters only when search-type is registered
\* for its resource type; with only create and read registered for Patient the
\* entry lists [create, read] and no search parameter, although the
\* configuration has a Patient parameter that is to be listed.
C15_SearchParamsNeedSearchType ==
    MetadataSent
    => LET resource == sent.body.rest[1].resource IN
       /\ \A t \in DOMAIN resource :
            "searchParam" \in DOMAIN resource[t]
                => "search-type" \in RegisteredKinds(t)
       /\ ("Patient" \in DOMAIN resource /\ RegisteredKinds("Patient") = {"create", "read"})
            => /\ resource["Patient"].interaction
                    = <<[code |-> "create"], [code |-> "read"]>>
               /\ DOMAIN resource["Patient"] = {"type", "interaction"}

C15_Witness ==
    /\ MetadataSent
    /\ ConfigSearchParameters["Patient"]["nickname"].include_in_capability_statement
    /\ RegisteredKinds("Patient") = {"create", "read"}
    /\ "Patient" \in DOMAIN sent.body.rest[1].resource
    /\ "searchParam" \notin DOMAIN sent.body.rest[1].resource["Patient"]

\* ---------------------------------------------------------------- tests.py: the test application serving requests

_VALID_TOKEN == "valid"
_INVALID_TOKEN == "invalid"

\* the identifiers _generate_fhir_resource_id hands out
Ids == {"1", "2"}

\* the test resource, without an identifier
_RESOURCE(given) == [class |-> "Patient", family |-> "Baggins", given |-> given]

\* _resource(id_): the test resource with the identifier inserted
_resource(id_, given) == Merge(_RESOURCE(given), [id |-> id_])

FHIRResourceNotFoundError ==
    [class |-> "FHIRResourceNotFoundError", status_code |-> HTTP_404_NOT_FOUND]

FHIRUnauthorizedError(code, details_text) ==
    [class |-> "FHIRUnauthorizedError",
     status_code |-> HTTP_401_UNAUTHORIZED,
     code |-> code,
     details_text |-> details_text]

\* the callbacks: the store after the call, and what the call returned or raised
patient_create(db, resource, new_id) ==
    LET patient == Merge(resource, [id |-> new_id]) IN
    [database |-> Merge(db, new_id :> patient), result |-> Returned(patient.id)]

patient_read(db, id_) ==
    IF id_ \notin DOMAIN db
    THEN [database |-> db, result |-> Raised(FHIRResourceNotFoundError)]
    ELSE [database |-> db, result |-> Returned(db[id_])]

\* a variant that stores the resource whether or not the identifier is known
patient_update_Upsert(db, id_, resource) ==
    [database |-> Merge(db, id_ :> resource), result |-> Returned(resource.id)]

patient_update(db, id_, resource) ==
    IF id_ \notin DOMAIN db
    THEN [database |-> db, result |-> Raised(FHIRResourceNotFoundError)]
    ELSE [database |-> Merge(db, id_ :> resource), result |-> Returned(resource.id)]

\* a variant that looks at the scheme alone
validate_token_SchemeOnly(authorization) ==
    IF authorization.scheme # "Bearer"
    THEN Raised(FHIRUnauthorizedError("unknown", "Authentication failed"))
    ELSE Returned(None)

validate_token(authorization) ==
    IF authorization.scheme # "Bearer" \/ authorization.credentials # _VALID_TOKEN
    THEN Raised(FHIRUnauthorizedError("unknown", "Authentication failed"))
    ELSE Returned(None)

FHIRProvider(dependencies_, interactions_) ==
    [dependencies |-> dependencies_, interactions |-> interactions_]

ClientProvider == FHIRProvider(<<>>, ClientInteractions)

ClientCreateAndReadProvider ==
    FHIRProvider(<<>>,
        << TypeInteraction("CreateInteraction", "Patient", "patient_create", EmptyDict),
           TypeInteraction("ReadInteraction", "Patient", "patient_read", EmptyDict) >>)

provider_with_dependency ==
    FHIRProvider(<<"validate_token">>,
        << TypeInteraction("CreateInteraction", "Patient", "patient_create", EmptyDict) >>)

provider_with_interaction_dependency ==
    FHIRProvider(<<>>,
        << TypeInteraction("CreateInteraction", "Patient", "patient_create",
                           [dependencies |-> <<"validate_token">>]) >>)

Providers ==
    {ClientProvider, ClientCreateAndReadProvider,
     provider_with_dependency, provider_with_interaction_dependency}

\* the credentials the requests carry: the two of the tests, and a valid token
\* under a scheme spelled in lower case
ValidAuthorization == [scheme |-> "Bearer", credentials |-> _VALID_TOKEN]

Authorizations ==
    { ValidAuthorization,
      [scheme |-> "Bearer", credentials |-> _INVALID_TOKEN],
      [scheme |-> "bearer", credentials |-> _VALID_TOKEN] }

ClientQueryParams ==
    { Merge(f, p) :
        f \in {EmptyDict} \cup {[_format |-> v] : v \in {"json", "xml", "bogus"}},
        p \in {EmptyDict} \cup {[_pretty |-> v] : v \in {"true", "false"}} }

ClientRequest(method, path, accept, authorization, query_params, path_params, body) ==
    [class |-> "Request",
     method |-> method,
     path |-> path,
     headers |-> [Accept |-> accept, Authorization |-> authorization],
     query_params |-> query_params,
     path_params |-> path_params,
     body |-> body]

\* the requests of the tests: POST /Patient with any of the credentials,
\* GET /Patient/{id} and PUT /Patient/{id}, which no provider guards
ClientRequests ==
    { ClientRequest("POST", "/Patient", a, t, q, EmptyDict, _RESOURCE("Bilbo")) :
        a \in {<<>>, <<"application/fhir+xml">>},
        t \in Authorizations, q \in ClientQueryParams }
    \cup
    { ClientRequest("GET", "/Patient/{id}", <<>>, t, q, [id |-> i], None) :
        t \in {ValidAuthorization}, q \in ClientQueryParams, i \in Ids }
    \cup
    { ClientRequest("PUT", "/Patient/{id}", <<>>, t, q, [id |-> i], _resource(i, g)) :
        t \in {ValidAuthorization}, q \in ClientQueryParams, i \in Ids,
        g \in {"Bilbo", "Frodo"} }

\* ---------------------------------------------------------------- the request handlers

\* the error payload of an exception raised while a request is handled
operation_outcome(exception, interaction, req) ==
    CASE exception.class = "FHIRResourceNotFoundError" ->
            make_operation_outcome(
                "error", "not-found",
                "Unknown " \o get_resource_type(interaction.resource_type)
                    \o " resource '" \o req.path_params.id \o "'")
      [] exception.class = "FHIRUnauthorizedError" ->
            make_operation_outcome("error", exception.code, exception.details_text)
      [] exception.class = "FHIRGeneralError" ->
            make_operation_outcome(
                exception.severity, exception.code, exception.details_text)

\* one pre-check applied to the request
Depend(dependency, req) ==
    CASE dependency = "validate_token" -> validate_token(req.headers.Authorization)

\* the callback of the interaction applied to the request
Invoke(interaction, db, req, new_id) ==
    CASE interaction.callable_ = "patient_create" ->
            patient_create(db, req.body, new_id)
      [] interaction.callable_ = "patient_read" ->
            patient_read(db, req.path_params.id)
      [] interaction.callable_ = "patient_update" ->
            patient_update(db, req.path_params.id, req.body)

\* the sink the handler hands to the callback and to format_response; Create
\* has set the location of the new resource
SinkOf(interaction, done) ==
    IF label(interaction) = "create"
    THEN [class |-> "Response",
          headers |-> [Location |->
                        "http://testserver/"
                            \o get_resource_type(interaction.resource_type)
                            \o "/" \o done.result.value \o "/_history/1"]]
    ELSE [class |-> "Response", headers |-> EmptyDict]

\* the resource the handler hands to format_response: a callback that
\* returned an identifier leaves no resource to render
ResourceOf(interaction, done) ==
    IF label(interaction) = "read" THEN done.result.value ELSE None

\* what the transport sends: a standalone response as it is, anything else at
\* the status of the route, with the headers of the sink and the default
\* serialization of the resource
Send(status_code, composed) ==
    LET value == composed.result.value IN
    IF value # None /\ value.class \in {"Response", "JSONResponse"}
    THEN [status_code |-> value.status_code,
          headers |-> ("Content-Type" :> value.media_type),
          content |-> value.content]
    ELSE [status_code |-> status_code,
          headers |-> composed.response.headers,
          content |-> IF value = None THEN None ELSE dict(value)]

\* an error is rendered: the format is negotiated leniently and the payload
\* goes through format_response at the status of the exception
HandleError(exception, interaction, route, db, req, invoked_) ==
    LET lenient == from_request(req, FALSE)
        args == [resource |-> operation_outcome(exception, interaction, req),
                 response |-> None,
                 status_code |-> exception.status_code]
        composed == format_response(args, lenient.value)
    IN  [raise_exception |-> FALSE, outcome |-> lenient, call |-> args,
         response |-> composed.response, returned |-> composed.result,
         database |-> db, invoked |-> invoked_,
         sent |-> Send(route.args.status_code, composed)]

\* the handler of a route: the pre-checks, the format, the callback, the
\* response; an exception of any of the first three is rendered as an error
Handler(interaction, route, dependencies_, db, req, new_id) ==
    LET checks == [k \in DOMAIN dependencies_ |-> Depend(dependencies_[k], req)]
        failed == {k \in DOMAIN checks : checks[k].raised}
        first == CHOOSE k \in failed : \A j \in failed : k <= j
        strict == from_request(req, TRUE)
        done == Invoke(interaction, db, req, new_id)
        args == [resource |-> ResourceOf(interaction, done),
                 response |-> SinkOf(interaction, done)]
        composed == format_response(args, strict.value)
    IN  IF failed # {}
        THEN HandleError(checks[first].exception, interaction, route, db, req, <<>>)
        ELSE IF strict.raised
        THEN HandleError(strict.exception, interaction, route, db, req, <<>>)
        ELSE IF done.result.raised
        THEN HandleError(done.result.exception, interaction, route, done.database,
                         req, <<interaction.callable_>>)
        ELSE [raise_exception |-> TRUE, outcome |-> strict, call |-> args,
              response |-> composed.response, returned |-> composed.result,
              database |-> done.database, invoked |-> <<interaction.callable_>>,
              sent |-> Send(route.args.status_code, composed)]

\* the route of the request: its verb and its path
Routed(route, req) == route.verb = req.method /\ route.args.path = req.path

\* add_providers(provider) in _app, and the store cleared after it
AddProvider(provider) ==
    /\ interactions = <<>>
    /\ interactions' = provider.interactions
    /\ routes' = [n \in DOMAIN provider.interactions |->
                    RoutesOf(provider.interactions[n])]
    /\ dependencies' = provider.dependencies
    /\ database' = EmptyDict
    /\ UNCHANGED <<invoked, sent>>
    /\ UNCHANGED requestVars
    /\ UNCHANGED sharedVars

\* a request is handled by the route it matches
Handle ==
    /\ interactions # <<>>
    /\ \E n \in DOMAIN routes :
       \E k \in DOMAIN routes[n] :
       \E req \in {r \in ClientRequests : Routed(routes[n][k], r)} :
       \E new_id \in (IF req.method = "POST" THEN Ids \ DOMAIN database ELSE {""}) :
            LET handled ==
                    Handler(interactions[n], routes[n][k],
                            dependencies
                                \o Get(routes[n][k].args, "dependencies", <<>>),
                            database, req, new_id)
            IN  /\ request' = req
                /\ raise_exception' = handled.raise_exception
                /\ outcome' = handled.outcome
                /\ call' = handled.call
                /\ response' = handled.response
                /\ returned' = handled.returned
                /\ database' = handled.database
                /\ invoked' = handled.invoked
                /\ sent' = handled.sent
    /\ UNCHANGED dependencies
    /\ UNCHANGED routeVars
    /\ UNCHANGED sharedVars

ClientNext ==
    \/ \E provider \in Providers : AddProvider(provider)
    \/ Handle

ClientSpec == Init /\ [][ClientNext]_vars

\* ---------------------------------------------------------------- properties of the handlers

\* a request has been answered by a handler
Answered == request # None /\ sent # None /\ "path" \in DOMAIN request

\* the format a request asks for: the Accept header of a POST, or _format, or
\* JSON; an error of a request with an unknown _format is rendered as JSON
AskedFormat(req) ==
    IF req.method = "POST" /\ req.headers.Accept = <<"application/fhir+xml">>
    THEN "xml"
    ELSE IF Get(req.query_params, "_format", "json") = "xml" THEN "xml" ELSE "json"

AskedRendering(req) ==
    [content_type |-> IF AskedFormat(req) = "xml"
                      THEN "application/fhir+xml" ELSE "application/fhir+json",
     encoding |-> AskedFormat(req),
     pretty |-> Get(req.query_params, "_pretty", "false") = "true"]

\* the content type, the encoding and the layout of a response with a body
Rendering(sent_) ==
    [content_type |-> sent_.headers["Content-Type"],
     encoding |-> sent_.content.encoding,
     pretty |-> IF sent_.content.encoding = "json"
                THEN sent_.content.indent = 2
                ELSE sent_.content.pretty_print]

HasBody(sent_) == sent_.content # None /\ "Content-Type" \in DOMAIN sent_.headers

\* the request can be answered in the format it asks for
FormatResolves(req) ==
    \/ req.method = "POST" /\ req.headers.Accept = <<"application/fhir+xml">>
    \/ Get(req.query_params, "_format", "json") \in {"json", "xml"}

NotFoundPayload(id_) ==
    [class |-> "OperationOutcome",
     issue |-> <<[severity |-> "error",
                  code |-> "not-found",
                  details |-> [text |-> "Unknown Patient resource '" \o id_ \o "'"]]>>]

\* C11: a Read with _format json or xml and _pretty true or false (given or
\* defaulted) is answered 404 with an error payload when the identifier is
\* unknown and 200 with the resource when it is known, and both answers have
\* the content type, the encoding and the layout the query asks for; every
\* answer with an error status carries an error payload in the format the
\* request asks for, JSON or XML, never anything else.
C11_ErrorsInNegotiatedFormat ==
    Answered
    => /\ (request.method = "GET" /\ FormatResolves(request))
            => /\ HasBody(sent)
               /\ Rendering(sent) = AskedRendering(request)
               /\ IF request.path_params.id \in DOMAIN database
                  THEN sent.status_code = 200 /\ sent.content.of.class = "Patient"
                  ELSE sent.status_code = 404
                       /\ sent.content.of.class = "OperationOutcome"
       /\ sent.status_code >= 400
            => /\ HasBody(sent)
               /\ sent.content.of.class = "OperationOutcome"
               /\ Rendering(sent) = AskedRendering(request)

C11_Witness ==
    /\ Answered
    /\ request.method = "GET"
    /\ request.path_params.id \notin DOMAIN database
    /\ request.query_params = [_format |-> "xml", _pretty |-> "true"]
    /\ sent.status_code = 404
    /\ sent.headers["Content-Type"] = "application/fhir+xml"
    /\ sent.content.encoding = "xml"
    /\ sent.content.pretty_print

PreChecks(deps, table, req) ==
    {deps[k] : k \in DOMAIN deps}
    \cup
    UNION { UNION { LET more == Get(table[n][k].args, "dependencies", <<>>)
                    IN  IF Routed(table[n][k], req)
                        THEN {more[j] : j \in DOMAIN more}
                        ELSE {} :
                    k \in DOMAIN table[n] } :
            n \in DOMAIN table }

ConcurrentRequests ==
    { [class |-> "Request", method |-> "GET",
       headers |-> [Accept |-> <<>>], query_params |-> EmptyDict],
      [class |-> "Request", method |-> "GET",
       headers |-> [Accept |-> <<>>], query_params |-> [_format |-> "xml"]],
      [class |-> "Request", method |-> "GET",
       headers |-> [Accept |-> <<>>], query_params |-> [_format |-> "bogus"]],
      [class |-> "Request", method |-> "POST",
       headers |-> [Accept |-> <<"application/fhir+xml">>],
       query_params |-> [_pretty |-> "true"]] }

\* the calls of format_response of a request: the resource with the sink, no
\* resource with the sink and format_parameters left to its default, an error
\* payload with a status code and no sink
ConcurrentComposeArgs(sink, format_parameters) ==
    { [resource |-> [class |-> "Patient", id |-> "1"], response |-> sink,
       format_parameters |-> format_parameters],
      [resource |-> None, response |-> sink],
      [resource |-> make_operation_outcome(
                        "error", "not-found", "Unknown Patient resource '1'"),
       response |-> None, status_code |-> HTTP_404_NOT_FOUND,
       format_parameters |-> format_parameters] }

\* format_from_accept_header and from_request as the class methods they are:
\* the table is read from the class at the time of the call
RECURSIVE FirstContentTypeOf(_, _)
FirstContentTypeOf(cls_, accept) ==
    IF accept = <<>>
    THEN <<>>
    ELSE IF Head(accept) \in DOMAIN cls_._CONTENT_TYPES
         THEN <<cls_._CONTENT_TYPES[Head(accept)]>>
         ELSE FirstContentTypeOf(cls_, Tail(accept))

cls_format_from_accept_header(cls_, req) ==
    IF req.method = "POST"
    THEN FirstContentTypeOf(cls_, req.headers.Accept)
    ELSE <<>>

cls_from_request(cls_, req, raise_exc) ==
    LET format_ == cls_format_from_accept_header(cls_, req)
        token == Get(req.query_params, "_format", "json")
        pretty == Get(req.query_params, "_pretty", "false") = "true"
    IN  IF format_ # <<>>
        THEN Returned(FormatParameters(format_[1], pretty))
        ELSE IF token \in DOMAIN cls_._CONTENT_TYPES
             THEN Returned(FormatParameters(cls_._CONTENT_TYPES[token], pretty))
             ELSE IF raise_exc
                  THEN Raised(FHIRGeneralError(
                          HTTP_400_BAD_REQUEST, "error", "structure",
                          "Invalid response format specified for '_format' parameter"))
                  ELSE Returned(FormatParameters("application/fhir+json", pretty))

\* a variant in which the lookup of _format is a setdefault: an unknown token
\* is entered into the table
ClassAfterFromRequest_SetDefault(cls_, req) ==
    LET token == Get(req.query_params, "_format", "json") IN
    IF token \in DOMAIN cls_._CONTENT_TYPES
    THEN cls_
    ELSE [cls_ EXCEPT !._CONTENT_TYPES = Merge(@, token :> "application/fhir+json")]

\* the class after from_request: the table is subscripted and read with get,
\* nothing is assigned
ClassAfterFromRequest(cls_, req) == cls_

\* the default arguments after format_response: format_parameters is read,
\* nothing is assigned to it
DefaultsAfterFormatResponse(defaults_, args, format_parameters) == defaults_

\* a request arrives and its format is negotiated
Negotiate(i) ==
    /\ interactions # <<>>
    /\ inflight[i].request = None
    /\ \E req \in ConcurrentRequests, raise_exc \in BOOLEAN :
        /\ inflight' = [inflight EXCEPT
                ![i] = [@ EXCEPT !.request = req,
                                 !.raise_exception = raise_exc,
                                 !.outcome = cls_from_request(cls, req, raise_exc),
                                 !.response = [class |-> "Response",
                                               headers |-> EmptyDict]]]
        /\ cls' = ClassAfterFromRequest(cls, req)
    /\ UNCHANGED defaults
    /\ UNCHANGED <<routeVars, requestVars, clientVars>>

\* the response of a request in flight is composed
Compose(i) ==
    /\ inflight[i].outcome # None
    /\ ~inflight[i].outcome.raised
    /\ inflight[i].call = None
    /\ \E args \in ConcurrentComposeArgs(inflight[i].response, inflight[i].outcome.value) :
        LET format_parameters ==
                IF "format_parameters" \in DOMAIN args
                THEN args.format_parameters
                ELSE defaults.format_parameters
            done == format_response(args, format_parameters)
        IN  /\ inflight' = [inflight EXCEPT
                    ![i] = [@ EXCEPT !.call = args,
                                     !.response = done.response,
                                     !.returned = done.result]]
            /\ defaults' = DefaultsAfterFormatResponse(defaults, args, format_parameters)
    /\ UNCHANGED cls
    /\ UNCHANGED <<routeVars, requestVars, clientVars>>

ConcurrentNext ==
    \/ AddProviders
    \/ \E i \in 1..MaxRequests : Negotiate(i)
    \/ \E i \in 1..MaxRequests : Compose(i)

ConcurrentSpec == Init /\ [][ConcurrentNext]_vars

\* what a request in flight has got so far is what it gets when handled alone
AsAlone(r) ==
    /\ r.request # None
        => r.outcome = from_request(r.request, r.raise_exception)
    /\ r.call # None
        => LET sink == [class |-> "Response", headers |-> EmptyDict]
               alone == format_response(
                            IF r.call.response = None
                            THEN r.call
                            ELSE [r.call EXCEPT !.response = sink],
                            IF "format_parameters" \in DOMAIN r.call
                            THEN from_request(r.request, r.raise_exception).value
                            ELSE FormatParameters("application/fhir+json", FALSE))
           IN  /\ r.returned = alone.result
               /\ r.response = alone.response

\* C19: under every interleaving of the negotiation and composition steps of
\* the requests in flight, each request's FormatParameters, composed response
\* and sink are those it gets when handled alone; a step leaves the alias
\* table and the default FormatParameters as they were and changes the record
\* and the sink of at most one request.
C19_RequestsIndependent ==
    [][ /\ \A i \in 1..MaxRequests : AsAlone(inflight'[i])
        /\ cls' = cls
        /\ cls'._CONTENT_TYPES = _CONTENT_TYPES
        /\ defaults' = defaults
        /\ \A i, j \in 1..MaxRequests :
                (i # j /\ inflight'[i] # inflight[i]) => inflight'[j] = inflight[j] ]_vars

C19_Witness ==
    /\ inflight[1].request # None
    /\ inflight[1].request.query_params = [_format |-> "bogus"]
    /\ inflight[1].call # None
    /\ inflight[2].request # None
    /\ inflight[2].request.query_params = [_format |-> "bogus"]
    /\ inflight[2].raise_exception
    /\ inflight[2].outcome.raised
    /\ inflight[1].response.headers = ("Content-Type" :> "application/fhir+json")

====
